---- MODULE Spec2Model ----
(***************************************************************************)
(* cl3: the OpenCL platform and command-queue wrappers.                    *)
(*                                                                         *)
(* One calling thread invokes the wrapper functions of platform.rs and     *)
(* command_queue.rs.  Every wrapper forwards to a native entry point of    *)
(* the OpenCL runtime; the runtime is the environment of the model: its    *)
(* status codes, sizes and written data are chosen nondeterministically,   *)
(* except for the per-queue bookkeeping (reference count, context and      *)
(* device) that the runtime keeps for every command queue.                 *)
(*                                                                         *)
(* A wrapper that issues one native call is one action.  A two-phase       *)
(* query is two actions, one per native call, with pc holding the phase    *)
(* that is pending.  finish, whose native call blocks by contract, is the  *)
(* call and its return (pc = "blocked" in between).  When a wrapper        *)
(* returns, pc = "done" and cur, calls and result describe the invocation; *)
(* the caller then takes the result and is free to make its next call      *)
(* (pc = "idle").                                                          *)
(*                                                                         *)
(* Spec is the single caller.  SpecThreads is several threads running      *)
(* two-phase queries concurrently on handles of their own.                 *)
(***************************************************************************)
EXTENDS Integers, Sequences, FiniteSets, TLC

VARIABLES
    queues,      \* native runtime: queue handle -> its bookkeeping record
    pc,          \* "idle", the pending phase ("value", "blocked"), or "done"
    cur,         \* the wrapper invocation in progress / last finished
    calls,       \* the native calls issued by that invocation, in order
    result,      \* the Result<_, cl_int> the invocation returned
    buffer_ptr,  \* the caller's `buffer_ptr` / `image_ptr` (&mut cl_mem)
    retained,    \* per queue: retain_command_queue calls that returned Ok
    released,    \* per queue: release_command_queue calls that returned Ok
    created,     \* per queue: the arguments of the create call that returned it
    threads      \* concurrent callers: thread -> its pc, cur, calls and result

vars == <<queues, pc, cur, calls, result, buffer_ptr, retained, released, created,
          threads>>

----------------------------------------------------------------------------
\* Bounds of the model.

\* number of command-queue handles the runtime can hand out
MaxQueues == 1
\* successful retains counted per queue
MaxRetains == 2
\* largest element count a variable-length attribute has
MaxCount == 2
\* width of the address space handles are drawn from
PtrBits == 8
\* number of threads that call the wrappers concurrently
MaxThreads == 2

----------------------------------------------------------------------------
\* Status codes.

CL_SUCCESS == 0
CL_INVALID_VALUE == -30
CL_OUT_OF_HOST_MEMORY == -6
CL_INVALID_COMMAND_QUEUE == -36

\* the failure codes a live object's native call may answer with
FailureCodes == {CL_INVALID_VALUE, CL_OUT_OF_HOST_MEMORY}

----------------------------------------------------------------------------
\* Handles: opaque native-owned addresses; 0 is the null pointer.

NULL == 0
QueueHandles == 1 .. MaxQueues
Contexts == {17, 200}
Devices == {250}
PlatformIds == {41, 42}
Events == {51, 52}
MappedPtrs == {61, 62}
Properties == {0, 3}

\* ToIntptr reading the address through a type one bit narrower
ToIntptr_truncated(h) == h % (2 ^ (PtrBits - 1))

\* `ptr as intptr_t`: the address read as a signed pointer-sized integer
ToIntptr(h) == IF h >= 2 ^ (PtrBits - 1) THEN h - 2 ^ PtrBits ELSE h
\* `value as cl_context`: the signed integer read back as an address
FromIntptr(v) == v % (2 ^ PtrBits)

\* mem::size_of::<$ty>() of the element types the queries use
SizeOf(ty) ==
    CASE ty = "u8" -> 1
      [] ty = "cl_uint" -> 4
      [] ty = "cl_ulong" -> 8
      [] ty = "intptr_t" -> 8
      [] ty = "cl_name_version" -> 68

----------------------------------------------------------------------------
\* Results and the record of native calls.

\* Ok(payload): payload is a tag, a scalar and an element list
Ok(tag, num, vec) ==
    [ok |-> TRUE, code |-> CL_SUCCESS, tag |-> tag, num |-> num, vec |-> vec]
\* Err(status)
Err(status) ==
    [ok |-> FALSE, code |-> status, tag |-> "Err", num |-> 0, vec |-> <<>>]
\* no invocation has returned yet
NoResult == [ok |-> FALSE, code |-> CL_SUCCESS, tag |-> "None", num |-> 0, vec |-> <<>>]

\* One native call: entry point, object, numeric key, destination capacity
\* (bytes, or entries for clGetPlatformIDs), whether a destination buffer was
\* passed, whether the runtime produced a status during the call (a status
\* out-parameter may be left unwritten) and that status, the value the
\* runtime wrote to the out-parameter or destination, the value the entry
\* point returned when it returns a handle or pointer, and, for the value
\* query of a vector, the size the attribute had in the runtime at the time
\* of the call.
Call(api, obj) ==
    [api |-> api, obj |-> obj, param |-> 0, cap |-> 0, buf |-> FALSE,
     wrote |-> TRUE, status |-> CL_SUCCESS, out |-> 0, data |-> <<>>, ret |-> NULL,
     avail |-> 0]

\* One wrapper invocation: function, object handle, enum key, numeric key,
\* the local `size` of a two-phase query, the create arguments, and, for
\* the map functions, what the caller's `buffer_ptr` / `image_ptr` held when
\* the function was called.
Invocation(op, obj, key, param, size, context, device) ==
    [op |-> op, obj |-> obj, key |-> key, param |-> param, size |-> size,
     context |-> context, device |-> device, held |-> NULL]

NoInvocation == Invocation("none", NULL, "", 0, 0, NULL, NULL)

\* StatusResult reporting every failure as one fixed code
StatusResult_fixed_code(status, okv) ==
    IF CL_SUCCESS # status THEN Err(CL_INVALID_VALUE) ELSE okv

\* `if CL_SUCCESS != status { Err(status) } else { Ok(value) }`
StatusResult(status, okv) == IF CL_SUCCESS # status THEN Err(status) ELSE okv

----------------------------------------------------------------------------
\* The native runtime's bookkeeping of command queues.

DeadQueue == [live |-> FALSE, refs |-> 0, context |-> NULL, device |-> NULL]

FreeHandles == {q \in QueueHandles : ~queues[q].live}

\* clCreateCommandQueue / clCreateCommandQueueWithProperties: the responses
\* the runtime can give.  It creates a queue with reference count 1 and
\* writes CL_SUCCESS, or creates nothing and writes a failure code, or
\* creates nothing and leaves the errcode_ret slot unwritten.
clCreateCommandQueue(context, device, properties) ==
    {[wrote |-> TRUE, errcode |-> CL_SUCCESS, ret |-> q,
      queues |-> [queues EXCEPT ![q] =
                     [live |-> TRUE, refs |-> 1, context |-> context,
                      device |-> device]]]
        : q \in FreeHandles}
    \cup {[wrote |-> TRUE, errcode |-> c, ret |-> NULL, queues |-> queues]
            : c \in FailureCodes}
    \cup {[wrote |-> FALSE, errcode |-> CL_SUCCESS, ret |-> NULL, queues |-> queues]}

\* clRetainCommandQueue: increments the count of a live queue, or fails.
clRetainCommandQueue(q) ==
    IF queues[q].live
    THEN {[status |-> CL_SUCCESS,
           queues |-> [queues EXCEPT ![q].refs = @ + 1]]}
         \cup {[status |-> c, queues |-> queues] : c \in FailureCodes}
    ELSE {[status |-> CL_INVALID_COMMAND_QUEUE, queues |-> queues]}

\* clReleaseCommandQueue: decrements the count of a live queue and deletes
\* the queue when the count reaches zero, or fails.
clReleaseCommandQueue(q) ==
    IF queues[q].live
    THEN {[status |-> CL_SUCCESS,
           queues |-> [queues EXCEPT ![q] =
                          IF @.refs = 1 THEN DeadQueue
                          ELSE [@ EXCEPT !.refs = @ - 1]]]}
         \cup {[status |-> c, queues |-> queues] : c \in FailureCodes}
    ELSE {[status |-> CL_INVALID_COMMAND_QUEUE, queues |-> queues]}

\* the statuses a native call on queue q may return
QueueStatuses(q) ==
    IF queues[q].live THEN {CL_SUCCESS} \cup FailureCodes
    ELSE {CL_INVALID_COMMAND_QUEUE}

----------------------------------------------------------------------------
\* Command-queue wrappers with one native call.

\* the invocation returns: its record of calls and its result
Return(invocation, native_calls, res) ==
    /\ pc' = "done"
    /\ cur' = invocation
    /\ calls' = native_calls
    /\ result' = res

\* bookkeeping of a create call that returned Ok(queue)
NoteCreated(res, context, device) ==
    /\ retained' = IF res.ok THEN [retained EXCEPT ![res.num] = 0] ELSE retained
    /\ released' = IF res.ok THEN [released EXCEPT ![res.num] = 0] ELSE released
    /\ created' = IF res.ok
                  THEN [created EXCEPT ![res.num] =
                           [known |-> TRUE, context |-> context, device |-> device]]
                  ELSE created

\* bookkeeping of a release call that returned Ok(()): the history of a
\* queue ends when the runtime deletes it
NoCreation == [known |-> FALSE, context |-> NULL, device |-> NULL]
NoteReleased(res, q, after) ==
    LET gone == res.ok /\ ~after[q].live
    IN  /\ released' = IF gone THEN [released EXCEPT ![q] = 0]
                       ELSE IF res.ok THEN [released EXCEPT ![q] = @ + 1]
                       ELSE released
        /\ retained' = IF gone THEN [retained EXCEPT ![q] = 0] ELSE retained
        /\ created' = IF gone THEN [created EXCEPT ![q] = NoCreation] ELSE created

create_command_queue(context, device, properties) ==
    /\ pc = "idle"
    /\ \E r \in clCreateCommandQueue(context, device, properties) :
        LET status == IF r.wrote THEN r.errcode ELSE CL_INVALID_VALUE
            res == StatusResult(status, Ok("Queue", r.ret, <<>>))
        IN  /\ queues' = r.queues
            /\ Return(Invocation("create_command_queue", NULL, "", 0, 0, context, device),
                      <<[Call("clCreateCommandQueue", context) EXCEPT
                            !.wrote = r.wrote, !.status = r.errcode, !.ret = r.ret]>>,
                      res)
            /\ NoteCreated(res, context, device)
    /\ UNCHANGED <<buffer_ptr, threads>>

create_command_queue_with_properties(context, device, properties) ==
    /\ pc = "idle"
    /\ \E r \in clCreateCommandQueue(context, device, properties) :
        LET status == IF r.wrote THEN r.errcode ELSE CL_INVALID_VALUE
            res == StatusResult(status, Ok("Queue", r.ret, <<>>))
        IN  /\ queues' = r.queues
            /\ Return(Invocation("create_command_queue_with_properties", NULL, "", 0, 0,
                                 context, device),
                      <<[Call("clCreateCommandQueueWithProperties", context) EXCEPT
                            !.wrote = r.wrote, !.status = r.errcode, !.ret = r.ret]>>,
                      res)
            /\ NoteCreated(res, context, device)
    /\ UNCHANGED <<buffer_ptr, threads>>

retain_command_queue(command_queue) ==
    /\ pc = "idle"
    /\ retained[command_queue] < MaxRetains
    /\ \E r \in clRetainCommandQueue(command_queue) :
        LET res == StatusResult(r.status, Ok("Unit", 0, <<>>))
        IN  /\ queues' = r.queues
            /\ Return(Invocation("retain_command_queue", command_queue, "", 0, 0, NULL, NULL),
                      <<[Call("clRetainCommandQueue", command_queue) EXCEPT
                            !.status = r.status]>>,
                      res)
            /\ retained' = IF res.ok THEN [retained EXCEPT ![command_queue] = @ + 1]
                           ELSE retained
    /\ UNCHANGED <<released, created, buffer_ptr, threads>>

\* release_command_queue forwarding to clRetainCommandQueue
release_command_queue_retains(command_queue) ==
    /\ pc = "idle"
    /\ released[command_queue] <= MaxRetains
    /\ \E r \in clRetainCommandQueue(command_queue) :
        LET res == StatusResult(r.status, Ok("Unit", 0, <<>>))
        IN  /\ queues' = r.queues
            /\ Return(Invocation("release_command_queue", command_queue, "", 0, 0, NULL, NULL),
                      <<[Call("clRetainCommandQueue", command_queue) EXCEPT
                            !.status = r.status]>>,
                      res)
            /\ NoteReleased(res, command_queue, r.queues)
    /\ UNCHANGED <<buffer_ptr, threads>>

release_command_queue(command_queue) ==
    /\ pc = "idle"
    /\ released[command_queue] <= MaxRetains
    /\ \E r \in clReleaseCommandQueue(command_queue) :
        LET res == StatusResult(r.status, Ok("Unit", 0, <<>>))
        IN  /\ queues' = r.queues
            /\ Return(Invocation("release_command_queue", command_queue, "", 0, 0, NULL, NULL),
                      <<[Call("clReleaseCommandQueue", command_queue) EXCEPT
                            !.status = r.status]>>,
                      res)
            /\ NoteReleased(res, command_queue, r.queues)
    /\ UNCHANGED <<buffer_ptr, threads>>

\* what a wrapper that only forwards a call leaves alone in the model
Forwarded == UNCHANGED <<queues, buffer_ptr, retained, released, created, threads>>

\* flush calling clFlush a second time when the first call failed
flush_retries(command_queue) ==
    /\ pc = "idle"
    /\ \E status \in QueueStatuses(command_queue), again \in QueueStatuses(command_queue) :
        LET first == [Call("clFlush", command_queue) EXCEPT !.status = status]
            second == [Call("clFlush", command_queue) EXCEPT !.status = again]
        IN  Return(Invocation("flush", command_queue, "", 0, 0, NULL, NULL),
                   IF CL_SUCCESS # status THEN <<first, second>> ELSE <<first>>,
                   StatusResult(IF CL_SUCCESS # status THEN again ELSE status,
                                Ok("Unit", 0, <<>>)))
    /\ Forwarded

\* flush refusing a queue the wrapper remembers a release of
flush_remembers_release(command_queue) ==
    /\ pc = "idle"
    /\ \E status \in QueueStatuses(command_queue) :
        Return(Invocation("flush", command_queue, "", 0, 0, NULL, NULL),
               <<[Call("clFlush", command_queue) EXCEPT !.status = status]>>,
               IF released[command_queue] > 0 THEN Err(CL_INVALID_COMMAND_QUEUE)
               ELSE StatusResult(status, Ok("Unit", 0, <<>>)))
    /\ Forwarded

flush(command_queue) ==
    /\ pc = "idle"
    /\ \E status \in QueueStatuses(command_queue) :
        Return(Invocation("flush", command_queue, "", 0, 0, NULL, NULL),
               <<[Call("clFlush", command_queue) EXCEPT !.status = status]>>,
               StatusResult(status, Ok("Unit", 0, <<>>)))
    /\ Forwarded

\* finish giving up on clFinish: it returns while the call is still pending
finish_times_out(command_queue) ==
    /\ pc = "idle"
    /\ Return(Invocation("finish", command_queue, "", 0, 0, NULL, NULL),
              <<[Call("clFinish", command_queue) EXCEPT !.wrote = FALSE]>>,
              Err(CL_OUT_OF_HOST_MEMORY))
    /\ Forwarded

\* finish calls clFinish, which blocks until the queued commands have
\* completed: the calling thread is inside the native call, which has
\* produced no status yet
finish(command_queue) ==
    /\ pc = "idle"
    /\ pc' = "blocked"
    /\ cur' = Invocation("finish", command_queue, "", 0, 0, NULL, NULL)
    /\ calls' = <<[Call("clFinish", command_queue) EXCEPT !.wrote = FALSE]>>
    /\ result' = NoResult
    /\ Forwarded

\* clFinish returns its status and finish returns with it
finish_returns ==
    /\ pc = "blocked"
    /\ \E status \in QueueStatuses(cur.obj) :
        Return(cur, <<[calls[1] EXCEPT !.wrote = TRUE, !.status = status]>>,
               StatusResult(status, Ok("Unit", 0, <<>>)))
    /\ Forwarded

----------------------------------------------------------------------------
\* The enqueue wrappers.

\* the enqueue_* functions that return the native call's status directly,
\* each with the native entry point it forwards to
EnqueueApi ==
    [enqueue_read_buffer |-> "clEnqueueReadBuffer",
     enqueue_read_buffer_rect |-> "clEnqueueReadBufferRect",
     enqueue_write_buffer |-> "clEnqueueWriteBuffer",
     enqueue_write_buffer_rect |-> "clEnqueueWriteBufferRect",
     enqueue_fill_buffer |-> "clEnqueueFillBuffer",
     enqueue_copy_buffer |-> "clEnqueueCopyBuffer",
     enqueue_copy_buffer_rect |-> "clEnqueueCopyBufferRect",
     enqueue_read_image |-> "clEnqueueReadImage",
     enqueue_write_image |-> "clEnqueueWriteImage",
     enqueue_fill_image |-> "clEnqueueFillImage",
     enqueue_copy_image |-> "clEnqueueCopyImage",
     enqueue_copy_image_to_buffer |-> "clEnqueueCopyImageToBuffer",
     enqueue_copy_buffer_to_image |-> "clEnqueueCopyBufferToImage",
     enqueue_unmap_mem_object |-> "clEnqueueUnmapMemObject",
     enqueue_migrate_mem_object |-> "clEnqueueMigrateMemObjects",
     enqueue_nd_range_kernel |-> "clEnqueueNDRangeKernel",
     enqueue_task |-> "clEnqueueTask",
     enqueue_native_kernel |-> "clEnqueueNativeKernel",
     enqueue_marker_with_wait_list |-> "clEnqueueMarkerWithWaitList",
     enqueue_barrier_with_wait_list |-> "clEnqueueBarrierWithWaitList",
     enqueue_svm_free |-> "clEnqueueSVMFree",
     enqueue_svm_mem_cpy |-> "clEnqueueSVMMemcpy",
     enqueue_svm_mem_fill |-> "clEnqueueSVMMemFill",
     enqueue_svm_map |-> "clEnqueueSVMMap",
     enqueue_svm_unmap |-> "clEnqueueSVMUnmap",
     enqueue_svm_migrate_mem |-> "clEnqueueSVMMigrateMem"]

EnqueueNames == DOMAIN EnqueueApi

\* clEnqueue*: on success the runtime writes a new event to the event slot
\* (a runtime that writes none leaves the slot alone, event = NULL); on
\* failure it may leave the slot alone or write to it.
clEnqueue(q) ==
    {[status |-> CL_SUCCESS, event |-> e] :
        e \in IF queues[q].live THEN {NULL} \cup Events ELSE {}}
    \cup {[status |-> c, event |-> e] :
            c \in QueueStatuses(q) \ {CL_SUCCESS}, e \in {NULL} \cup Events}

\* EventSlot not reset to null: a slot the runtime left alone still holds
\* an event of an earlier invocation
EventSlot_stale(written) == IF written = NULL THEN 51 ELSE written

\* `let mut event = ptr::null_mut()`: the slot holds what the runtime wrote,
\* or null
EventSlot(written) == written

enqueue(name, command_queue) ==
    /\ pc = "idle"
    /\ \E r \in clEnqueue(command_queue) :
        /\ Return(Invocation(name, command_queue, "", 0, 0, NULL, NULL),
                  <<[Call(EnqueueApi[name], command_queue) EXCEPT
                        !.status = r.status, !.out = r.event]>>,
                  StatusResult(r.status, Ok("Event", EventSlot(r.event), <<>>)))
    /\ Forwarded

\* clEnqueueMapBuffer / clEnqueueMapImage: the status arrives in the
\* errcode_ret slot and the mapped pointer is the return value.
clEnqueueMap(q) ==
    {[wrote |-> TRUE, errcode |-> CL_SUCCESS, event |-> e, ret |-> m]
        : e \in IF queues[q].live THEN Events ELSE {}, m \in MappedPtrs}
    \cup {[wrote |-> TRUE, errcode |-> c, event |-> NULL, ret |-> NULL]
            : c \in QueueStatuses(q) \ {CL_SUCCESS}}
    \cup {[wrote |-> FALSE, errcode |-> CL_SUCCESS, event |-> NULL, ret |-> NULL]}

\* enqueue_map_buffer storing the mapped pointer only after the status
\* check: a failed call leaves the caller's pointer as it was
enqueue_map_buffer_keeps_pointer(command_queue) ==
    /\ pc = "idle"
    /\ \E r \in clEnqueueMap(command_queue) :
        LET status == IF r.wrote THEN r.errcode ELSE CL_INVALID_VALUE
        IN  /\ buffer_ptr' = IF CL_SUCCESS # status THEN buffer_ptr ELSE r.ret
            /\ Return([Invocation("enqueue_map_buffer", command_queue, "", 0, 0,
                                   NULL, NULL) EXCEPT !.held = buffer_ptr],
                      <<[Call("clEnqueueMapBuffer", command_queue) EXCEPT
                            !.wrote = r.wrote, !.status = r.errcode,
                            !.out = r.event, !.ret = r.ret]>>,
                      StatusResult(status, Ok("Event", EventSlot(r.event), <<>>)))
    /\ UNCHANGED <<queues, retained, released, created, threads>>

enqueue_map_buffer(command_queue) ==
    /\ pc = "idle"
    /\ \E r \in clEnqueueMap(command_queue) :
        LET status == IF r.wrote THEN r.errcode ELSE CL_INVALID_VALUE
        IN  /\ buffer_ptr' = r.ret
            /\ Return([Invocation("enqueue_map_buffer", command_queue, "", 0, 0,
                                   NULL, NULL) EXCEPT !.held = buffer_ptr],
                      <<[Call("clEnqueueMapBuffer", command_queue) EXCEPT
                            !.wrote = r.wrote, !.status = r.errcode,
                            !.out = r.event, !.ret = r.ret]>>,
                      StatusResult(status, Ok("Event", EventSlot(r.event), <<>>)))
    /\ UNCHANGED <<queues, retained, released, created, threads>>

\* enqueue_map_image returning the mapped pointer, as its declared return
\* type `Result<*mut c_void, cl_int>` suggests, instead of the event
enqueue_map_image_returns_pointer(command_queue) ==
    /\ pc = "idle"
    /\ \E r \in clEnqueueMap(command_queue) :
        LET status == IF r.wrote THEN r.errcode ELSE CL_INVALID_VALUE
        IN  /\ buffer_ptr' = r.ret
            /\ Return([Invocation("enqueue_map_image", command_queue, "", 0, 0,
                                  NULL, NULL) EXCEPT !.held = buffer_ptr],
                      <<[Call("clEnqueueMapImage", command_queue) EXCEPT
                            !.wrote = r.wrote, !.status = r.errcode,
                            !.out = r.event, !.ret = r.ret]>>,
                      StatusResult(status, Ok("Event", r.ret, <<>>)))
    /\ UNCHANGED <<queues, retained, released, created, threads>>

enqueue_map_image(command_queue) ==
    /\ pc = "idle"
    /\ \E r \in clEnqueueMap(command_queue) :
        LET status == IF r.wrote THEN r.errcode ELSE CL_INVALID_VALUE
        IN  /\ buffer_ptr' = r.ret
            /\ Return([Invocation("enqueue_map_image", command_queue, "", 0, 0,
                                  NULL, NULL) EXCEPT !.held = buffer_ptr],
                      <<[Call("clEnqueueMapImage", command_queue) EXCEPT
                            !.wrote = r.wrote, !.status = r.errcode,
                            !.out = r.event, !.ret = r.ret]>>,
                      StatusResult(status, Ok("Event", EventSlot(r.event), <<>>)))
    /\ UNCHANGED <<queues, retained, released, created, threads>>

----------------------------------------------------------------------------
\* Query keys.

\* enum PlatformInfo: `param_name as cl_platform_info`
PlatformInfoId(key) ==
    CASE key = "CL_PLATFORM_PROFILE" -> 2304
      [] key = "CL_PLATFORM_VERSION" -> 2305
      [] key = "CL_PLATFORM_NAME" -> 2306
      [] key = "CL_PLATFORM_VENDOR" -> 2307
      [] key = "CL_PLATFORM_EXTENSIONS" -> 2308
      [] key = "CL_PLATFORM_HOST_TIMER_RESOLUTION" -> 2309
      [] key = "CL_PLATFORM_NUMERIC_VERSION" -> 2310
      [] key = "CL_PLATFORM_EXTENSIONS_WITH_VERSION" -> 2311

PlatformInfo ==
    {"CL_PLATFORM_PROFILE", "CL_PLATFORM_VERSION", "CL_PLATFORM_NAME",
     "CL_PLATFORM_VENDOR", "CL_PLATFORM_EXTENSIONS",
     "CL_PLATFORM_HOST_TIMER_RESOLUTION", "CL_PLATFORM_NUMERIC_VERSION",
     "CL_PLATFORM_EXTENSIONS_WITH_VERSION"}

\* PlatformInfoShape with the variants of the two scalar arms exchanged
PlatformInfoShape_swapped(key) ==
    CASE key \in {"CL_PLATFORM_PROFILE", "CL_PLATFORM_VERSION", "CL_PLATFORM_NAME",
                  "CL_PLATFORM_VENDOR", "CL_PLATFORM_EXTENSIONS"} -> "Str"
      [] key = "CL_PLATFORM_NUMERIC_VERSION" -> "Ulong"
      [] key = "CL_PLATFORM_HOST_TIMER_RESOLUTION" -> "Uint"
      [] key = "CL_PLATFORM_EXTENSIONS_WITH_VERSION" -> "VecNameVersion"

\* the InfoType variant of each arm of get_platform_info's match
PlatformInfoShape(key) ==
    CASE key \in {"CL_PLATFORM_PROFILE", "CL_PLATFORM_VERSION", "CL_PLATFORM_NAME",
                  "CL_PLATFORM_VENDOR", "CL_PLATFORM_EXTENSIONS"} -> "Str"
      [] key = "CL_PLATFORM_NUMERIC_VERSION" -> "Uint"
      [] key = "CL_PLATFORM_HOST_TIMER_RESOLUTION" -> "Ulong"
      [] key = "CL_PLATFORM_EXTENSIONS_WITH_VERSION" -> "VecNameVersion"

\* CommandQueueInfoId with the discriminants of context and device exchanged
CommandQueueInfoId_swapped(key) ==
    CASE key = "CL_QUEUE_CONTEXT" -> 4241
      [] key = "CL_QUEUE_DEVICE" -> 4240
      [] key = "CL_QUEUE_REFERENCE_COUNT" -> 4242
      [] key = "CL_QUEUE_PROPERTIES" -> 4243
      [] key = "CL_QUEUE_SIZE" -> 4244
      [] key = "CL_QUEUE_DEVICE_DEFAULT" -> 4245
      [] key = "CL_QUEUE_PROPERTIES_ARRAY" -> 4248

\* enum CommandQueueInfo: `param_name as cl_command_queue_info`
CommandQueueInfoId(key) ==
    CASE key = "CL_QUEUE_CONTEXT" -> 4240
      [] key = "CL_QUEUE_DEVICE" -> 4241
      [] key = "CL_QUEUE_REFERENCE_COUNT" -> 4242
      [] key = "CL_QUEUE_PROPERTIES" -> 4243
      [] key = "CL_QUEUE_SIZE" -> 4244
      [] key = "CL_QUEUE_DEVICE_DEFAULT" -> 4245
      [] key = "CL_QUEUE_PROPERTIES_ARRAY" -> 4248

CommandQueueInfo ==
    {"CL_QUEUE_CONTEXT", "CL_QUEUE_DEVICE", "CL_QUEUE_REFERENCE_COUNT",
     "CL_QUEUE_PROPERTIES", "CL_QUEUE_SIZE", "CL_QUEUE_DEVICE_DEFAULT",
     "CL_QUEUE_PROPERTIES_ARRAY"}

\* CommandQueueInfoShape with CL_QUEUE_SIZE in the cl_ulong arm
CommandQueueInfoShape_size_ulong(key) ==
    CASE key = "CL_QUEUE_REFERENCE_COUNT" -> "Uint"
      [] key \in {"CL_QUEUE_PROPERTIES", "CL_QUEUE_SIZE"} -> "Ulong"
      [] key \in {"CL_QUEUE_CONTEXT", "CL_QUEUE_DEVICE", "CL_QUEUE_DEVICE_DEFAULT"} -> "Ptr"
      [] key = "CL_QUEUE_PROPERTIES_ARRAY" -> "VecUlong"

\* CommandQueueInfoShape with the properties array returned as raw bytes
CommandQueueInfoShape_raw_array(key) ==
    CASE key \in {"CL_QUEUE_REFERENCE_COUNT", "CL_QUEUE_SIZE"} -> "Uint"
      [] key = "CL_QUEUE_PROPERTIES" -> "Ulong"
      [] key \in {"CL_QUEUE_CONTEXT", "CL_QUEUE_DEVICE", "CL_QUEUE_DEVICE_DEFAULT"} -> "Ptr"
      [] key = "CL_QUEUE_PROPERTIES_ARRAY" -> "VecU8"

\* the InfoType variant of each arm of get_command_queue_info's match
CommandQueueInfoShape(key) ==
    CASE key \in {"CL_QUEUE_REFERENCE_COUNT", "CL_QUEUE_SIZE"} -> "Uint"
      [] key = "CL_QUEUE_PROPERTIES" -> "Ulong"
      [] key \in {"CL_QUEUE_CONTEXT", "CL_QUEUE_DEVICE", "CL_QUEUE_DEVICE_DEFAULT"} -> "Ptr"
      [] key = "CL_QUEUE_PROPERTIES_ARRAY" -> "VecUlong"

\* the $ty each arm instantiates api_info_value! / api_info_vector! with
ElemType(shape) ==
    CASE shape = "Str" -> "u8"
      [] shape = "Uint" -> "cl_uint"
      [] shape = "Ulong" -> "cl_ulong"
      [] shape = "Ptr" -> "intptr_t"
      [] shape = "VecNameVersion" -> "cl_name_version"
      [] shape = "VecUlong" -> "cl_ulong"
      [] shape = "VecU8" -> "u8"

\* TwoPhase with the list-of-u64 arm taken for a scalar arm
TwoPhase_scalar_array(shape) == shape \in {"Str", "VecNameVersion", "VecU8"}

\* the arms that run the size query and then the vector query
TwoPhase(shape) == shape \in {"Str", "VecNameVersion", "VecUlong", "VecU8"}

----------------------------------------------------------------------------
\* The query helpers the macros api_info_size!, api_info_value! and
\* api_info_vector! expand to.  Each gives the native call it issues and
\* the Result it returns for the runtime's response.

\* a value of type $ty read from what the runtime wrote
AsType(ty, written) == IF ty = "intptr_t" THEN ToIntptr(written) ELSE written

\* api_info_size!: null destination, zero capacity, asks for the size
get_size(api, obj, param, status, size) ==
    [call |-> [Call(api, obj) EXCEPT !.param = param, !.cap = 0, !.buf = FALSE,
                                     !.status = status, !.out = size],
     res |-> StatusResult(status, Ok("size_t", size, <<>>))]

\* api_info_value!: a destination of exactly size_of::<$ty>() bytes
get_value(api, obj, param, ty, status, written) ==
    [call |-> [Call(api, obj) EXCEPT !.param = param, !.cap = SizeOf(ty), !.buf = TRUE,
                                     !.status = status, !.out = written],
     res |-> StatusResult(status, Ok(ty, AsType(ty, written), <<>>))]

\* api_info_vector!: the number of elements a buffer of `size` bytes holds
VectorCount(ty, size) == size \div SizeOf(ty)

\* api_info_vector!: a reported size of zero gives an empty vector and is
\* not an error; the value query is made for a size greater than zero
VectorIsEmpty(size) == ~(0 < size)

\* api_info_vector!: `Ok(Vec::default())` for a size of zero
EmptyVector(ty) == Ok(ty, 0, <<>>)

\* api_info_vector!: a destination of exactly `size` bytes
get_vector(api, obj, param, ty, size, status, data) ==
    [call |-> [Call(api, obj) EXCEPT !.param = param, !.cap = size, !.buf = TRUE,
                                     !.status = status, !.data = data],
     res |-> StatusResult(status, Ok(ty, 0, data))]

\* Wrap treating an empty vector as a failed query
Wrap_rejects_empty(shape, r) ==
    IF r.ok /\ ~(shape \in {"Str", "VecNameVersion", "VecUlong", "VecU8"} /\ r.vec = <<>>)
    THEN Ok(shape, r.num, r.vec)
    ELSE Err(IF r.ok THEN CL_INVALID_VALUE ELSE r.code)

\* Wrap unwrapping the helper's value whatever the helper returned
Wrap_drops_error(shape, r) == Ok(shape, r.num, r.vec)

\* Wrap dropping the last element of the helper's vector
Wrap_drops_last(shape, r) ==
    IF r.ok THEN Ok(shape, r.num, SubSeq(r.vec, 1, Len(r.vec) - 1)) ELSE Err(r.code)

\* `Ok(InfoType::X(helper(..)?))`: an error of the helper is returned as it
\* is; a value is wrapped in the arm's variant
Wrap(shape, r) == IF r.ok THEN Ok(shape, r.num, r.vec) ELSE Err(r.code)

----------------------------------------------------------------------------
\* The native runtime's answers to queries.

\* element width in bytes and element counts of the attribute behind a key
NativeWidth(param) ==
    CASE param \in 2304 .. 2308 -> 1
      [] param = 2309 -> 8
      [] param = 2310 -> 4
      [] param = 2311 -> 68
      [] param \in {4240, 4241, 4243, 4245, 4248} -> 8
      [] param \in {4242, 4244} -> 4

NativeCounts(param) ==
    IF param \in (2304 .. 2308) \cup {2311, 4248} THEN 0 .. MaxCount ELSE {1}

\* the sizes the runtime may report for a key
NativeSizes(param) == {k * NativeWidth(param) : k \in NativeCounts(param)}

\* the elements the runtime may write, as the wrapper's $ty reads them
Elems(ty) ==
    CASE ty = "u8" -> {0, 65}
      [] ty = "cl_ulong" -> {0, 3}
      [] ty = "cl_name_version" ->
            {[version |-> 4194304, name |-> "cl_khr_fp64"],
             [version |-> 8388608, name |-> "cl_khr_icd"]}

\* the contents of a buffer of `count` elements after the value query
VecData(ty, count) ==
    IF count <= MaxCount THEN [1 .. count -> Elems(ty)]
    ELSE {[i \in 1 .. count |-> e] : e \in Elems(ty)}

\* the scalar the runtime writes for a key of queue q
QueueScalars(q, param) ==
    CASE param = 4240 -> {queues[q].context}
      [] param = 4241 -> {queues[q].device}
      [] param = 4242 -> {queues[q].refs}
      [] param = 4243 -> Properties
      [] param = 4244 -> {0, 16}
      [] param = 4245 -> Devices
      [] OTHER -> {0}

\* the scalar the runtime writes for a platform key
PlatformScalars(param) ==
    CASE param = 2309 -> {1, 1000}
      [] param = 2310 -> {4194304, 12582912}
      [] OTHER -> {0}

PlatformStatuses == {CL_SUCCESS} \cup FailureCodes

\* the statuses of a value query when the attribute has `now` bytes and the
\* destination `cap`: a destination that is too small is never filled
ValueStatuses(statuses, now, cap) ==
    IF cap < now THEN statuses \ {CL_SUCCESS} ELSE statuses

\* what a value query writes into a destination of `count` elements: the
\* elements when it succeeds, nothing when it fails
ValueData(status, ty, count) ==
    IF status = CL_SUCCESS THEN VecData(ty, count) ELSE {<<>>}

----------------------------------------------------------------------------
\* Queries.

\* a two-phase query is between its size query and its value query
Pending(invocation, native_calls) ==
    /\ pc' = "value"
    /\ cur' = invocation
    /\ calls' = native_calls
    /\ result' = NoResult

\* SizeFailed without the `?`: the error of the size query is dropped
SizeFailed_ignored(r) == FALSE

\* `let size = get_size(..)?;`: an error of the size query returns at once
SizeFailed(r) == ~r.ok

\* the first native call of a query with variant `shape`: the only call of a
\* scalar arm, the size query of a vector arm
FirstCall(op, api, obj, key, param, shape, statuses, scalars) ==
    IF TwoPhase(shape)
    THEN \E status \in statuses, size \in NativeSizes(param) :
            LET r == get_size(api, obj, param, status, size)
                inv == Invocation(op, obj, key, param, r.res.num, NULL, NULL)
            IN  IF SizeFailed(r.res) THEN Return(inv, <<r.call>>, Err(r.res.code))
                ELSE IF VectorIsEmpty(r.res.num)
                     THEN Return(inv, <<r.call>>, Wrap(shape, EmptyVector(ElemType(shape))))
                     ELSE Pending(inv, <<r.call>>)
    ELSE \E status \in statuses, written \in scalars :
            LET r == get_value(api, obj, param, ElemType(shape), status, written)
            IN  Return(Invocation(op, obj, key, param, 0, NULL, NULL),
                       <<r.call>>, Wrap(shape, r.res))

\* ValueCapacity asking the runtime again: the capacity is the size the
\* attribute has now
ValueCapacity_requeried(size, now) == now

\* `get_vector(command_queue, param_name, size)`: the capacity of the value
\* query is the local `size`, whatever size the attribute has by now
ValueCapacity(size, now) == size

\* the value query of a vector arm, with the size the size query reported;
\* the attribute may have another size by now
SecondCall(api, shape, statuses) ==
    LET ty == ElemType(shape)
    IN  \E now \in NativeSizes(cur.param) :
        LET cap == ValueCapacity(cur.size, now)
        IN  \E status \in ValueStatuses(statuses, now, cap) :
            \E data \in ValueData(status, ty, VectorCount(ty, cap)) :
                LET r == get_vector(api, cur.obj, cur.param, ty, cap, status, data)
                IN  /\ pc' = "done"
                    /\ cur' = cur
                    /\ calls' = Append(calls, [r.call EXCEPT !.avail = now])
                    /\ result' = Wrap(shape, r.res)

get_platform_info(platform, param_name) ==
    /\ pc = "idle"
    /\ FirstCall("get_platform_info", "clGetPlatformInfo", platform, param_name,
                 PlatformInfoId(param_name), PlatformInfoShape(param_name),
                 PlatformStatuses, PlatformScalars(PlatformInfoId(param_name)))
    /\ Forwarded

get_platform_info_value ==
    /\ pc = "value"
    /\ cur.op = "get_platform_info"
    /\ SecondCall("clGetPlatformInfo", PlatformInfoShape(cur.key), PlatformStatuses)
    /\ Forwarded

get_command_queue_info(command_queue, param_name) ==
    /\ pc = "idle"
    /\ FirstCall("get_command_queue_info", "clGetCommandQueueInfo", command_queue,
                 param_name, CommandQueueInfoId(param_name),
                 CommandQueueInfoShape(param_name), QueueStatuses(command_queue),
                 QueueScalars(command_queue, CommandQueueInfoId(param_name)))
    /\ Forwarded

get_command_queue_info_value ==
    /\ pc = "value"
    /\ cur.op = "get_command_queue_info"
    /\ SecondCall("clGetCommandQueueInfo", CommandQueueInfoShape(cur.key),
                  QueueStatuses(cur.obj))
    /\ Forwarded

\* the raw keys get_command_queue_data is called with
DataParams == {4242, 4248}

get_command_queue_data(command_queue, param_name) ==
    /\ pc = "idle"
    /\ FirstCall("get_command_queue_data", "clGetCommandQueueInfo", command_queue,
                 "", param_name, "VecU8", QueueStatuses(command_queue), {0})
    /\ Forwarded

get_command_queue_data_value ==
    /\ pc = "value"
    /\ cur.op = "get_command_queue_data"
    /\ SecondCall("clGetCommandQueueInfo", "VecU8", QueueStatuses(cur.obj))
    /\ Forwarded

\* get_platform_ids without the `0 < count` test: the second call is made
\* for every count
get_platform_ids_always_fetches ==
    /\ pc = "idle"
    /\ \E status \in PlatformStatuses, count \in 0 .. MaxCount :
        LET call == [Call("clGetPlatformIDs", NULL) EXCEPT
                        !.cap = 0, !.buf = FALSE, !.status = status, !.out = count]
            inv == Invocation("get_platform_ids", NULL, "", 0, count, NULL, NULL)
        IN  IF CL_SUCCESS # status THEN Return(inv, <<call>>, Err(status))
            ELSE Pending(inv, <<call>>)
    /\ Forwarded

\* clGetPlatformIDs(0, null, &count), then clGetPlatformIDs(count, ids, null)
\* when the count is greater than zero
get_platform_ids ==
    /\ pc = "idle"
    /\ \E status \in PlatformStatuses, count \in 0 .. MaxCount :
        LET call == [Call("clGetPlatformIDs", NULL) EXCEPT
                        !.cap = 0, !.buf = FALSE, !.status = status, !.out = count]
            inv == Invocation("get_platform_ids", NULL, "", 0, count, NULL, NULL)
        IN  IF CL_SUCCESS # status THEN Return(inv, <<call>>, Err(status))
            ELSE IF 0 < count THEN Pending(inv, <<call>>)
                 ELSE Return(inv, <<call>>, Ok("VecPlatformId", 0, <<>>))
    /\ Forwarded

\* get_platform_ids_value asking for one entry whatever the count is
get_platform_ids_value_one_entry ==
    /\ pc = "value"
    /\ cur.op = "get_platform_ids"
    /\ \E status \in PlatformStatuses, ids \in [1 .. 1 -> PlatformIds] :
        LET call == [Call("clGetPlatformIDs", NULL) EXCEPT
                        !.cap = 1, !.buf = TRUE, !.status = status, !.data = ids]
        IN  /\ pc' = "done"
            /\ cur' = cur
            /\ calls' = Append(calls, call)
            /\ result' = StatusResult(status, Ok("VecPlatformId", 0, ids))
    /\ Forwarded

get_platform_ids_value ==
    /\ pc = "value"
    /\ cur.op = "get_platform_ids"
    /\ \E status \in PlatformStatuses, ids \in [1 .. cur.size -> PlatformIds] :
        LET call == [Call("clGetPlatformIDs", NULL) EXCEPT
                        !.cap = cur.size, !.buf = TRUE, !.status = status, !.data = ids]
        IN  /\ pc' = "done"
            /\ cur' = cur
            /\ calls' = Append(calls, call)
            /\ result' = StatusResult(status, Ok("VecPlatformId", 0, ids))
    /\ Forwarded

----------------------------------------------------------------------------
\* The caller.

\* The caller takes the returned Result (unwraps or matches it); the
\* wrapper's locals are gone and nothing of the invocation is kept.
take_result ==
    /\ pc = "done"
    /\ pc' = "idle"
    /\ cur' = NoInvocation
    /\ calls' = <<>>
    /\ result' = NoResult
    /\ Forwarded

----------------------------------------------------------------------------
\* Concurrent callers.  Each thread runs two-phase queries on handles of
\* its own; the steps of different threads interleave at the native calls.
\* The wrapper's `size` and its buffer are locals of the invocation, so
\* they live in the thread's own record.

Threads == 1 .. MaxThreads

\* the keys of the Str arm of get_platform_info
StringKeys ==
    {"CL_PLATFORM_PROFILE", "CL_PLATFORM_VERSION", "CL_PLATFORM_NAME",
     "CL_PLATFORM_VENDOR", "CL_PLATFORM_EXTENSIONS"}

IdleThread == [pc |-> "idle", cur |-> NoInvocation, calls |-> <<>>, result |-> NoResult]

\* the platform and the command queue thread t works on
PlatformOf(t) == 40 + t
QueueOf(t) == 100 + t

\* the bytes of the attribute the runtime holds for an object: a string of
\* a length that differs from object to object, with its terminator
NativeData(obj) ==
    [i \in 1 .. 1 + (obj % MaxCount) |-> IF i = 1 + (obj % MaxCount) THEN 0 ELSE 65]

\* the value query of the runtime on an object, for a destination of `cap`
\* bytes: a destination that is too small is refused with CL_INVALID_VALUE
NativeValueStatuses(obj, cap) ==
    IF cap < Len(NativeData(obj)) THEN {CL_INVALID_VALUE} ELSE PlatformStatuses

\* the contents of a destination of `count` bytes after the value query
NativeWrite(obj, count) ==
    [i \in 1 .. count |-> IF i <= Len(NativeData(obj)) THEN NativeData(obj)[i] ELSE 0]

\* ThreadSize reading a size kept in one place for all threads
ThreadSize_shared(t) == threads[1].cur.size

\* `size`: the local of the invocation of thread t that holds what its size
\* query reported
ThreadSize(t) == threads[t].cur.size

\* thread t calls a two-phase query: the size query
ThreadFirstCall(t, op, api, obj, key, param, shape) ==
    \E status \in PlatformStatuses :
        LET r == get_size(api, obj, param, status, Len(NativeData(obj)))
            inv == Invocation(op, obj, key, param, r.res.num, NULL, NULL)
            returned == [pc |-> "done", cur |-> inv, calls |-> <<r.call>>,
                         result |-> IF SizeFailed(r.res) THEN Err(r.res.code)
                                    ELSE Wrap(shape, EmptyVector(ElemType(shape)))]
            pending == [pc |-> "value", cur |-> inv, calls |-> <<r.call>>,
                        result |-> NoResult]
        IN  threads' = [threads EXCEPT ![t] =
                           IF SizeFailed(r.res) \/ VectorIsEmpty(r.res.num)
                           THEN returned ELSE pending]

\* thread t goes on to the value query, with its own size and buffer
ThreadSecondCall(t, api, shape) ==
    LET me == threads[t]
        ty == ElemType(shape)
        size == ThreadSize(t)
    IN  \E status \in NativeValueStatuses(me.cur.obj, size) :
            LET r == get_vector(api, me.cur.obj, me.cur.param, ty, size, status,
                                NativeWrite(me.cur.obj, VectorCount(ty, size)))
            IN  threads' = [threads EXCEPT ![t] =
                               [pc |-> "done", cur |-> me.cur,
                                calls |-> Append(me.calls, r.call),
                                result |-> Wrap(shape, r.res)]]

\* what the threads leave alone: the state of the single caller
SingleCaller == <<queues, pc, cur, calls, result, buffer_ptr, retained, released, created>>

thread_get_platform_info(t, param_name) ==
    /\ threads[t].pc = "idle"
    /\ ThreadFirstCall(t, "get_platform_info", "clGetPlatformInfo", PlatformOf(t),
                       param_name, PlatformInfoId(param_name),
                       PlatformInfoShape(param_name))
    /\ UNCHANGED SingleCaller

thread_get_platform_info_value(t) ==
    /\ threads[t].pc = "value"
    /\ threads[t].cur.op = "get_platform_info"
    /\ ThreadSecondCall(t, "clGetPlatformInfo", PlatformInfoShape(threads[t].cur.key))
    /\ UNCHANGED SingleCaller

thread_get_command_queue_data(t, param_name) ==
    /\ threads[t].pc = "idle"
    /\ ThreadFirstCall(t, "get_command_queue_data", "clGetCommandQueueInfo",
                       QueueOf(t), "", param_name, "VecU8")
    /\ UNCHANGED SingleCaller

thread_get_command_queue_data_value(t) ==
    /\ threads[t].pc = "value"
    /\ threads[t].cur.op = "get_command_queue_data"
    /\ ThreadSecondCall(t, "clGetCommandQueueInfo", "VecU8")
    /\ UNCHANGED SingleCaller

\* thread t takes the Result its call returned
thread_take_result(t) ==
    /\ threads[t].pc = "done"
    /\ threads' = [threads EXCEPT ![t] = IdleThread]
    /\ UNCHANGED SingleCaller

----------------------------------------------------------------------------
Init ==
    /\ queues = [q \in QueueHandles |-> DeadQueue]
    /\ pc = "idle"
    /\ cur = NoInvocation
    /\ calls = <<>>
    /\ result = NoResult
    /\ buffer_ptr = NULL
    /\ retained = [q \in QueueHandles |-> 0]
    /\ released = [q \in QueueHandles |-> 0]
    /\ created = [q \in QueueHandles |-> NoCreation]
    /\ threads = [t \in Threads |-> IdleThread]

Next ==
    \/ \E c \in Contexts, d \in Devices, p \in Properties :
           create_command_queue(c, d, p)
    \/ \E c \in Contexts, d \in Devices, p \in Properties :
           create_command_queue_with_properties(c, d, p)
    \/ \E q \in QueueHandles : retain_command_queue(q)
    \/ \E q \in QueueHandles : release_command_queue(q)
    \/ \E q \in QueueHandles : flush(q)
    \/ \E q \in QueueHandles : finish(q)
    \/ finish_returns
    \/ \E name \in EnqueueNames, q \in QueueHandles : enqueue(name, q)
    \/ \E q \in QueueHandles : enqueue_map_buffer(q)
    \/ \E q \in QueueHandles : enqueue_map_image(q)
    \/ \E p \in PlatformIds, key \in PlatformInfo : get_platform_info(p, key)
    \/ get_platform_info_value
    \/ \E q \in QueueHandles, key \in CommandQueueInfo : get_command_queue_info(q, key)
    \/ get_command_queue_info_value
    \/ \E q \in QueueHandles, param \in DataParams : get_command_queue_data(q, param)
    \/ get_command_queue_data_value
    \/ get_platform_ids
    \/ get_platform_ids_value
    \/ take_result

Spec == Init /\ [][Next]_vars

\* threads calling the two-phase queries concurrently, in any interleaving
NextThreads ==
    \/ \E t \in Threads, key \in StringKeys : thread_get_platform_info(t, key)
    \/ \E t \in Threads : thread_get_platform_info_value(t)
    \/ \E t \in Threads, param \in DataParams : thread_get_command_queue_data(t, param)
    \/ \E t \in Threads : thread_get_command_queue_data_value(t)
    \/ \E t \in Threads : thread_take_result(t)

SpecThreads == Init /\ [][NextThreads]_vars

----------------------------------------------------------------------------
\* The caller's conversions of a typed result.

\* InfoType::to_str: the bytes of a Str, without the trailing null
\* terminator when there is one
to_str(info) ==
    LET a == info.vec
    IN  IF Len(a) > 0 /\ a[Len(a)] = 0 THEN SubSeq(a, 1, Len(a) - 1) ELSE a

\* InfoType::to_uint, to_ulong, to_ptr: the scalar a Uint, Ulong or Ptr holds
to_uint(info) == info.num
to_ulong(info) == info.num
to_ptr(info) == info.num

----------------------------------------------------------------------------
\* Properties.

Done == pc = "done"

LastCall == calls[Len(calls)]

UnitOps == {"retain_command_queue", "release_command_queue", "flush", "finish"}
CreateOps == {"create_command_queue", "create_command_queue_with_properties"}
MapOps == {"enqueue_map_buffer", "enqueue_map_image"}

\* C1: whenever every native call of a finished invocation produced a status,
\* the wrapper returned an ok-result exactly when the last status is
\* CL_SUCCESS (every earlier call having succeeded), the ok-result carries the
\* handle or event the runtime handed out (or no payload), and an
\* error-result carries exactly the failing status.
C1_StatusTranslation ==
    (Done /\ \A i \in 1 .. Len(calls) : calls[i].wrote) =>
        /\ Len(calls) >= 1
        /\ \A i \in 1 .. Len(calls) - 1 : calls[i].status = CL_SUCCESS
        /\ result.ok <=> LastCall.status = CL_SUCCESS
        /\ ~result.ok => result.code = LastCall.status /\ result.tag = "Err"
        /\ (result.ok /\ cur.op \in CreateOps) =>
                result.tag = "Queue" /\ result.num = LastCall.ret
        /\ (result.ok /\ cur.op \in EnqueueNames \cup MapOps) =>
                result.tag = "Event" /\ result.num = LastCall.out
        /\ (result.ok /\ cur.op \in UnitOps) => result.tag = "Unit"

\* an enqueue wrapper passed on a failure code other than CL_INVALID_VALUE
C1_Witness ==
    /\ Done
    /\ cur.op = "enqueue_read_buffer"
    /\ LastCall.status = CL_OUT_OF_HOST_MEMORY
    /\ result = Err(CL_OUT_OF_HOST_MEMORY)

\* C2: the code of every error-result is a status the runtime produced
\* during a native call of that same invocation.
C2_NoFabricatedStatus ==
    (Done /\ ~result.ok) =>
        \E i \in 1 .. Len(calls) : calls[i].wrote /\ calls[i].status = result.code

\* the queries that run a size query and then a value query
IsTwoPhaseQuery ==
    \/ cur.op = "get_platform_info" /\
          cur.key \in {"CL_PLATFORM_PROFILE", "CL_PLATFORM_VERSION", "CL_PLATFORM_NAME",
                       "CL_PLATFORM_VENDOR", "CL_PLATFORM_EXTENSIONS",
                       "CL_PLATFORM_EXTENSIONS_WITH_VERSION"}
    \/ cur.op = "get_command_queue_data"
    \/ cur.op = "get_command_queue_info" /\ cur.key = "CL_QUEUE_PROPERTIES_ARRAY"

IsSizeQuery(c) == ~c.buf /\ c.cap = 0
IsValueQuery(c) == c.buf

\* C3: in a two-phase query the first native call is the size query and a
\* value query comes only second, after a size query that succeeded; a
\* failed size query returns Err of its code with no value query issued; a
\* failed value query returns Err of its code and no buffer.
C3_SizeBeforeValue ==
    (pc \in {"value", "done"} /\ IsTwoPhaseQuery) =>
        /\ Len(calls) \in {1, 2}
        /\ IsSizeQuery(calls[1])
        /\ \A i \in 1 .. Len(calls) :
              IsValueQuery(calls[i]) => i = 2 /\ calls[1].status = CL_SUCCESS
        /\ calls[1].status # CL_SUCCESS =>
              Done /\ Len(calls) = 1 /\ result = Err(calls[1].status)
        /\ (Len(calls) = 2 /\ calls[2].status # CL_SUCCESS) =>
              Done /\ result = Err(calls[2].status) /\ result.vec = <<>>

\* a string query whose size query succeeded and whose value query failed
C3_Witness ==
    /\ Done
    /\ cur.op = "get_platform_info"
    /\ cur.key = "CL_PLATFORM_NAME"
    /\ Len(calls) = 2
    /\ calls[1].status = CL_SUCCESS
    /\ calls[2].status = CL_OUT_OF_HOST_MEMORY
    /\ result = Err(CL_OUT_OF_HOST_MEMORY)

IsQuery == cur.op \in {"get_platform_info", "get_command_queue_info", "get_command_queue_data"}

IsScalarQuery ==
    \/ cur.op = "get_platform_info" /\
          cur.key \in {"CL_PLATFORM_NUMERIC_VERSION", "CL_PLATFORM_HOST_TIMER_RESOLUTION"}
    \/ cur.op = "get_command_queue_info" /\
          cur.key \in {"CL_QUEUE_REFERENCE_COUNT", "CL_QUEUE_SIZE", "CL_QUEUE_PROPERTIES",
                       "CL_QUEUE_CONTEXT", "CL_QUEUE_DEVICE", "CL_QUEUE_DEVICE_DEFAULT"}

C6_PlatformShapeByKey ==
    (Done /\ cur.op = "get_platform_info") =>
        /\ cur.key \in {"CL_PLATFORM_PROFILE", "CL_PLATFORM_VERSION", "CL_PLATFORM_NAME",
                        "CL_PLATFORM_VENDOR", "CL_PLATFORM_EXTENSIONS",
                        "CL_PLATFORM_NUMERIC_VERSION", "CL_PLATFORM_HOST_TIMER_RESOLUTION",
                        "CL_PLATFORM_EXTENSIONS_WITH_VERSION"}
        /\ result.ok =>
              result.tag =
                 CASE cur.key = "CL_PLATFORM_NUMERIC_VERSION" -> "Uint"
                   [] cur.key = "CL_PLATFORM_HOST_TIMER_RESOLUTION" -> "Ulong"
                   [] cur.key = "CL_PLATFORM_EXTENSIONS_WITH_VERSION" -> "VecNameVersion"
                   [] OTHER -> "Str"

\* the host timer resolution came back as a Ulong
C6_Witness ==
    /\ Done
    /\ cur.op = "get_platform_info"
    /\ cur.key = "CL_PLATFORM_HOST_TIMER_RESOLUTION"
    /\ result = Ok("Ulong", 1000, <<>>)

\* C7: the variant of a successful get_command_queue_info result is fixed
\* by the key (Uint for reference count and size, Ulong for properties, Ptr
\* for context, device and default device, VecUlong for the properties
\* array), and every native call of the query is given the key's
\* discriminant, 0x1090..0x1095 and 0x1098.
C7_QueueShapeAndIdByKey ==
    (pc \in {"value", "done"} /\ cur.op = "get_command_queue_info") =>
        /\ \A i \in 1 .. Len(calls) :
              calls[i].param =
                 CASE cur.key = "CL_QUEUE_CONTEXT" -> 4240
                   [] cur.key = "CL_QUEUE_DEVICE" -> 4241
                   [] cur.key = "CL_QUEUE_REFERENCE_COUNT" -> 4242
                   [] cur.key = "CL_QUEUE_PROPERTIES" -> 4243
                   [] cur.key = "CL_QUEUE_SIZE" -> 4244
                   [] cur.key = "CL_QUEUE_DEVICE_DEFAULT" -> 4245
                   [] cur.key = "CL_QUEUE_PROPERTIES_ARRAY" -> 4248
        /\ (Done /\ result.ok) =>
              result.tag =
                 CASE cur.key \in {"CL_QUEUE_REFERENCE_COUNT", "CL_QUEUE_SIZE"} -> "Uint"
                   [] cur.key = "CL_QUEUE_PROPERTIES" -> "Ulong"
                   [] cur.key \in {"CL_QUEUE_CONTEXT", "CL_QUEUE_DEVICE",
                                   "CL_QUEUE_DEVICE_DEFAULT"} -> "Ptr"
                   [] cur.key = "CL_QUEUE_PROPERTIES_ARRAY" -> "VecUlong"

\* the queue size came back as a Uint, asked for under 0x1094
C7_Witness ==
    /\ Done
    /\ cur.op = "get_command_queue_info"
    /\ cur.key = "CL_QUEUE_SIZE"
    /\ calls[1].param = 4244
    /\ result = Ok("Uint", 16, <<>>)

IsInfoQuery == cur.op \in {"get_platform_info", "get_command_queue_info"}

\* C8 as stated: every typed result of get_platform_info and
\* get_command_queue_info is a string, a 32-bit unsigned integer, a 64-bit
\* unsigned integer, a pointer-sized handle or a list of (name, version)
\* records.
C8_FiveShapes ==
    (Done /\ IsInfoQuery /\ result.ok) =>
        result.tag \in {"Str", "Uint", "Ulong", "Ptr", "VecNameVersion"}

\* C8 amended: every typed result of get_platform_info and
\* get_command_queue_info is one of six shapes, the five above or a list of
\* 64-bit unsigned integers, and the list of integers is produced by
\* CL_QUEUE_PROPERTIES_ARRAY only.
C8_SixShapes ==
    (Done /\ IsInfoQuery /\ result.ok) =>
        /\ result.tag \in {"Str", "Uint", "Ulong", "Ptr", "VecNameVersion", "VecUlong"}
        /\ result.tag = "VecUlong" <=>
              (cur.op = "get_command_queue_info" /\ cur.key = "CL_QUEUE_PROPERTIES_ARRAY")

\* a properties array of two entries came back as a list of 64-bit integers
C8_Witness ==
    /\ Done
    /\ cur.op = "get_command_queue_info"
    /\ cur.key = "CL_QUEUE_PROPERTIES_ARRAY"
    /\ result = Ok("VecUlong", 0, <<3, 0>>)

\* C9: for a queue returned by a create call and since then retained n
\* times and released m times with success, m <= n, a successful query of
\* CL_QUEUE_REFERENCE_COUNT returns Uint(1 + n - m).
C9_ReferenceCount ==
    (Done /\ cur.op = "get_command_queue_info" /\ cur.key = "CL_QUEUE_REFERENCE_COUNT"
        /\ result.ok /\ created[cur.obj].known
        /\ released[cur.obj] <= retained[cur.obj]) =>
        result = Ok("Uint", 1 + retained[cur.obj] - released[cur.obj], <<>>)

\* the count read 2 after two retains and one release
C9_Witness ==
    /\ Done
    /\ cur.op = "get_command_queue_info"
    /\ cur.key = "CL_QUEUE_REFERENCE_COUNT"
    /\ created[cur.obj].known
    /\ retained[cur.obj] = 2
    /\ released[cur.obj] = 1
    /\ result = Ok("Uint", 2, <<>>)

\* C10: for a queue returned by create(c, d, props), a successful query of
\* CL_QUEUE_CONTEXT returns a Ptr that reads back as c and a successful
\* query of CL_QUEUE_DEVICE returns a Ptr that reads back as d.
C10_HandlesPassThrough ==
    (Done /\ cur.op = "get_command_queue_info" /\ result.ok /\ created[cur.obj].known) =>
        /\ cur.key = "CL_QUEUE_CONTEXT" =>
              result.tag = "Ptr" /\ FromIntptr(result.num) = created[cur.obj].context
        /\ cur.key = "CL_QUEUE_DEVICE" =>
              result.tag = "Ptr" /\ FromIntptr(result.num) = created[cur.obj].device

\* the context of a queue created on context 200 read back as 200
C10_Witness ==
    /\ Done
    /\ cur.op = "get_command_queue_info"
    /\ cur.key = "CL_QUEUE_CONTEXT"
    /\ result.ok
    /\ created[cur.obj].known
    /\ created[cur.obj].context = 200
    /\ FromIntptr(result.num) = 200

\* C11: for every key of PlatformInfo and CommandQueueInfo, when a native
\* call of the query answers with a failure code (a key the runtime does not
\* know is answered with CL_INVALID_VALUE), the query has returned, it
\* returned an error-result of exactly that code, the failed call is the
\* last one it issued, and a returned value is always an Ok or an Err.
C11_RejectedKeyIsErr ==
    (pc \in {"value", "done"} /\ IsInfoQuery) =>
        /\ cur.key \in PlatformInfo \cup CommandQueueInfo
        /\ Done => result.tag # "None"
        /\ \A i \in 1 .. Len(calls) :
              calls[i].status # CL_SUCCESS =>
                 /\ Done
                 /\ i = Len(calls)
                 /\ result = Err(calls[i].status)

\* a platform without the numeric version key answered CL_INVALID_VALUE
C11_Witness ==
    /\ Done
    /\ cur.op = "get_platform_info"
    /\ cur.key = "CL_PLATFORM_NUMERIC_VERSION"
    /\ Len(calls) = 1
    /\ calls[1].status = CL_INVALID_VALUE
    /\ result = Err(CL_INVALID_VALUE)

UintKeys == {"CL_PLATFORM_NUMERIC_VERSION", "CL_QUEUE_REFERENCE_COUNT", "CL_QUEUE_SIZE"}
UlongKeys == {"CL_PLATFORM_HOST_TIMER_RESOLUTION", "CL_QUEUE_PROPERTIES"}
PtrKeys == {"CL_QUEUE_CONTEXT", "CL_QUEUE_DEVICE", "CL_QUEUE_DEVICE_DEFAULT"}

\* C13: a query of a scalar-shaped key issued one native call, with a
\* destination of exactly the scalar's width (4 bytes for a Uint key, 8 for
\* a Ulong key, 8 for a pointer-sized Ptr key), and on success the result
\* holds the bit pattern the runtime wrote: to_uint and to_ulong give the
\* written value and to_ptr, read back as an address, gives the written
\* address.
C13_ScalarWidthAndRoundTrip ==
    (Done /\ IsInfoQuery /\ cur.key \in UintKeys \cup UlongKeys \cup PtrKeys) =>
        /\ Len(calls) = 1
        /\ calls[1].buf
        /\ calls[1].cap = IF cur.key \in UintKeys THEN 4 ELSE 8
        /\ (result.ok /\ cur.key \in UintKeys) =>
              result.tag = "Uint" /\ to_uint(result) = calls[1].out
        /\ (result.ok /\ cur.key \in UlongKeys) =>
              result.tag = "Ulong" /\ to_ulong(result) = calls[1].out
        /\ (result.ok /\ cur.key \in PtrKeys) =>
              result.tag = "Ptr" /\ FromIntptr(to_ptr(result)) = calls[1].out

\* a context at an address with the top bit set came back as a negative
\* intptr_t of the same bit pattern, through a destination of 8 bytes
C13_Witness ==
    /\ Done
    /\ cur.op = "get_command_queue_info"
    /\ cur.key = "CL_QUEUE_CONTEXT"
    /\ result.ok
    /\ calls[1].cap = 8
    /\ calls[1].out = 200
    /\ to_ptr(result) < 0
    /\ FromIntptr(to_ptr(result)) = 200

\* C14: get_platform_ids returned an ok-result exactly when every native
\* call it issued returned CL_SUCCESS; the list then has as many ids as the
\* count call reported, the second call was asked for exactly that many
\* entries and the list is what it wrote; when a call failed the result is
\* Err of that call's code, carrying no ids, and no call followed it.
C14_PlatformIds ==
    (Done /\ cur.op = "get_platform_ids") =>
        /\ Len(calls) \in {1, 2}
        /\ result.ok <=> \A i \in 1 .. Len(calls) : calls[i].status = CL_SUCCESS
        /\ result.ok =>
              /\ result.tag = "VecPlatformId"
              /\ Len(result.vec) = calls[1].out
              /\ Len(calls) = 2 =>
                    /\ calls[2].cap = calls[1].out
                    /\ calls[2].buf
                    /\ result.vec = calls[2].data
        /\ ~result.ok =>
              /\ result = Err(LastCall.status)
              /\ result.vec = <<>>
              /\ \A i \in 1 .. Len(calls) - 1 : calls[i].status = CL_SUCCESS

\* two platforms were counted, two entries asked for and two ids returned
C14_Witness ==
    /\ Done
    /\ cur.op = "get_platform_ids"
    /\ Len(calls) = 2
    /\ calls[1].out = 2
    /\ calls[2].cap = 2
    /\ result = Ok("VecPlatformId", 0, <<41, 42>>)

\* the wrappers that are not queries
NonQueryOps == CreateOps \cup UnitOps \cup EnqueueNames \cup MapOps

\* the native entry point each of them forwards to
EntryPoint(op) ==
    CASE op = "create_command_queue" -> "clCreateCommandQueue"
      [] op = "create_command_queue_with_properties" -> "clCreateCommandQueueWithProperties"
      [] op = "retain_command_queue" -> "clRetainCommandQueue"
      [] op = "release_command_queue" -> "clReleaseCommandQueue"
      [] op = "flush" -> "clFlush"
      [] op = "finish" -> "clFinish"
      [] op = "enqueue_map_buffer" -> "clEnqueueMapBuffer"
      [] op = "enqueue_map_image" -> "clEnqueueMapImage"
      [] OTHER -> EnqueueApi[op]

\* C15: a finished invocation of a non-query wrapper (create, retain,
\* release, flush, finish, every enqueue_*) issued exactly one native call,
\* to its own entry point, whether the call succeeded or failed; a failure
\* code of that call is the error-result of the invocation, an ok-result is
\* returned only for a call that answered CL_SUCCESS, and no such wrapper is
\* ever between two native calls.
C15_OneCallNoRetry ==
    /\ pc = "value" => cur.op \notin NonQueryOps
    /\ (Done /\ cur.op \in NonQueryOps) =>
          /\ Len(calls) = 1
          /\ calls[1].api = EntryPoint(cur.op)
          /\ (calls[1].wrote /\ calls[1].status # CL_SUCCESS) =>
                result = Err(calls[1].status)
          /\ result.ok => calls[1].wrote /\ calls[1].status = CL_SUCCESS
          /\ ~calls[1].wrote => ~result.ok

\* a flush that failed made one call and returned its code
C15_Witness ==
    /\ Done
    /\ cur.op = "flush"
    /\ Len(calls) = 1
    /\ calls[1].api = "clFlush"
    /\ calls[1].status = CL_OUT_OF_HOST_MEMORY
    /\ result = Err(CL_OUT_OF_HOST_MEMORY)

\* the result as a function of the arguments of an invocation (its
\* function and key) and of the runtime's responses to its native calls,
\* and of nothing else
ResultOf(inv, cs) ==
    LET last == cs[Len(cs)]
        status == IF last.wrote THEN last.status ELSE CL_INVALID_VALUE
        shape == CASE inv.op = "get_platform_info" -> PlatformInfoShape(inv.key)
                   [] inv.op = "get_command_queue_info" -> CommandQueueInfoShape(inv.key)
                   [] inv.op = "get_command_queue_data" -> "VecU8"
                   [] OTHER -> "none"
        payload == CASE inv.op \in CreateOps -> Ok("Queue", last.ret, <<>>)
                     [] inv.op \in UnitOps -> Ok("Unit", 0, <<>>)
                     [] inv.op \in EnqueueNames \cup MapOps -> Ok("Event", last.out, <<>>)
                     [] inv.op = "get_platform_ids" -> Ok("VecPlatformId", 0, last.data)
                     [] shape \in {"Uint", "Ulong"} -> Ok(shape, last.out, <<>>)
                     [] shape = "Ptr" -> Ok(shape, ToIntptr(last.out), <<>>)
                     [] OTHER -> Ok(shape, 0, last.data)
    IN  IF CL_SUCCESS # status THEN Err(status) ELSE payload

\* C16: the wrapper layer is stateless: the result of every finished
\* invocation, and the pointer a map call stores for its caller, is a fixed
\* function of the invocation's arguments and of the runtime's responses to
\* the native calls of that invocation, so two invocations with the same
\* arguments and the same responses return the same result whatever
\* wrapper calls preceded them.
C16_Stateless ==
    Done =>
        /\ result = ResultOf(cur, calls)
        /\ cur.op \in MapOps => buffer_ptr = LastCall.ret

\* a flush answered with CL_SUCCESS returned Ok(()) on a queue that had
\* been retained twice and released once before
C16_Witness ==
    /\ Done
    /\ cur.op = "flush"
    /\ retained[cur.obj] = 2
    /\ released[cur.obj] = 1
    /\ calls[1].status = CL_SUCCESS
    /\ result = Ok("Unit", 0, <<>>)

\* the result thread record `me` gets when its calls are the only ones the
\* runtime sees: the attribute of its own object, or the failure code of
\* its own last call
AloneResult(me) ==
    LET last == me.calls[Len(me.calls)]
    IN  IF last.status # CL_SUCCESS THEN Err(last.status)
        ELSE Ok(IF me.cur.op = "get_platform_info" THEN "Str" ELSE "VecU8",
                0, NativeData(me.cur.obj))

\* C17: with several threads running two-phase queries on different
\* handles, their native calls interleaved in any order, every native call
\* of a thread is made on the thread's own handle, the value query of a
\* thread is given a destination of exactly the size its own size query
\* reported, and the thread receives the result it receives when running
\* alone.
C17_ThreadsKeepOwnSize ==
    \A t \in Threads :
        LET me == threads[t]
        IN  /\ me.pc \in {"value", "done"} =>
                  /\ me.cur.obj \in {PlatformOf(t), QueueOf(t)}
                  /\ \A i \in 1 .. Len(me.calls) : me.calls[i].obj = me.cur.obj
                  /\ IsSizeQuery(me.calls[1])
            /\ Len(me.calls) = 2 =>
                  /\ IsValueQuery(me.calls[2])
                  /\ me.calls[2].cap = me.calls[1].out
                  /\ me.calls[1].out = Len(NativeData(me.cur.obj))
            /\ me.pc = "done" => me.result = AloneResult(me)

\* thread 1 got its two bytes while thread 2, whose size query reported one
\* byte, was between its size query and its value query
C17_Witness ==
    /\ threads[1].pc = "done"
    /\ Len(threads[1].calls) = 2
    /\ threads[1].calls[2].cap = 2
    /\ threads[1].result = Ok("Str", 0, <<65, 0>>)
    /\ threads[2].pc = "value"
    /\ threads[2].calls[1].out = 1

\* C18, in every state: while clFinish has not returned finish has returned
\* no result, and a result of finish is the translation of the status
\* clFinish returned.
C18_FinishStates ==
    /\ pc = "blocked" =>
          /\ cur.op = "finish"
          /\ result = NoResult
          /\ Len(calls) = 1
          /\ calls[1].api = "clFinish"
          /\ ~calls[1].wrote
    /\ (Done /\ cur.op = "finish") =>
          /\ Len(calls) = 1
          /\ calls[1].api = "clFinish"
          /\ calls[1].wrote
          /\ result = StatusResult(calls[1].status, Ok("Unit", 0, <<>>))

\* C18, in every step: finish returns in the step in which clFinish does,
\* and that step is the only one taken while clFinish is pending.
C18_FinishSteps ==
    /\ (cur'.op = "finish" /\ pc' = "done" /\ pc # "done") =>
          pc = "blocked" /\ cur' = cur /\ ~calls[1].wrote /\ calls'[1].wrote
    /\ pc = "blocked" => pc' = "done" /\ cur' = cur

\* C18: finish(queue) returns only after the native clFinish call has
\* returned, and as soon as it has: no result is returned while the call is
\* pending, the result is the one of the status clFinish returned, and
\* there is no step (no timeout, no cancellation, no asynchronous path)
\* between the call and its return other than the return of clFinish.
C18_FinishBlocksUntilNativeReturn == []C18_FinishStates /\ [][C18_FinishSteps]_vars

\* the caller is blocked in clFinish on a live queue
C18_Witness ==
    /\ pc = "blocked"
    /\ cur.op = "finish"
    /\ queues[cur.obj].live
    /\ result = NoResult

\* the width in bytes of an element of each vector variant
ElemWidth(tag) ==
    CASE tag \in {"Str", "VecU8"} -> 1
      [] tag = "VecUlong" -> 8
      [] tag = "VecNameVersion" -> 68

\* C19: in every two-phase query the value query is given a destination
\* capacity of exactly the size the size query of the same invocation
\* returned, whatever size the attribute has in the runtime by then; there
\* is no third call, and a returned vector has exactly the elements that
\* fit that size.
C19_CapacityIsReportedSize ==
    (pc \in {"value", "done"} /\ IsTwoPhaseQuery) =>
        /\ Len(calls) <= 2
        /\ IsSizeQuery(calls[1])
        /\ Len(calls) = 2 =>
              /\ IsValueQuery(calls[2])
              /\ calls[2].cap = calls[1].out
              /\ calls[2].cap = cur.size
              /\ result.ok => Len(result.vec) * ElemWidth(result.tag) = calls[1].out

\* the properties array had 16 bytes at the size query and 8 at the value
\* query, which was still given 16 bytes and returned two entries
C19_Witness ==
    /\ Done
    /\ cur.op = "get_command_queue_info"
    /\ cur.key = "CL_QUEUE_PROPERTIES_ARRAY"
    /\ Len(calls) = 2
    /\ calls[1].out = 16
    /\ calls[2].avail = 8
    /\ calls[2].cap = 16
    /\ result.ok
    /\ Len(result.vec) = 2

\* C20: when enqueue_map_buffer or enqueue_map_image returns an ok-result,
\* its payload is the event the native call wrote to the event slot, not
\* the mapped pointer, and the caller's buffer_ptr / image_ptr holds the
\* mapped pointer the native call returned.
C20_MapReturnsEvent ==
    (Done /\ cur.op \in MapOps /\ result.ok) =>
        /\ result.tag = "Event"
        /\ result.num = calls[1].out
        /\ result.num \in Events
        /\ result.num \notin MappedPtrs
        /\ buffer_ptr = calls[1].ret
        /\ buffer_ptr \in MappedPtrs

\* a successful enqueue_map_image returned event 52 and left the mapped
\* pointer 61 in image_ptr
C20_Witness ==
    /\ Done
    /\ cur.op = "enqueue_map_image"
    /\ calls[1].out = 52
    /\ calls[1].ret = 61
    /\ result = Ok("Event", 52, <<>>)
    /\ buffer_ptr = 61

\* C21: when enqueue_map_buffer or enqueue_map_image has returned an
\* error-result, the caller's buffer_ptr / image_ptr holds the value the
\* native call returned, whatever it held when the function was called: the
\* pointer is assigned before the status is checked and its previous value
\* is not kept.
C21_MapOverwritesPointerOnError ==
    (Done /\ cur.op \in MapOps /\ ~result.ok) =>
        /\ Len(calls) = 1
        /\ result.tag = "Err"
        /\ buffer_ptr = calls[1].ret
        /\ cur.held # calls[1].ret => buffer_ptr # cur.held

\* the caller's pointer held 61 from an earlier map; the next
\* enqueue_map_buffer failed and the pointer is now the null it returned
C21_Witness ==
    /\ Done
    /\ cur.op = "enqueue_map_buffer"
    /\ cur.held = 61
    /\ calls[1].status = CL_OUT_OF_HOST_MEMORY
    /\ result = Err(CL_OUT_OF_HOST_MEMORY)
    /\ calls[1].ret = NULL
    /\ buffer_ptr = NULL

\* C22: when the count call of get_platform_ids succeeded and reported zero
\* platforms, get_platform_ids has returned Ok of an empty list after that
\* one native call; a second native call is pending or made only after a
\* count call that succeeded with a count greater than zero, and then it
\* is made.
C22_ZeroPlatforms ==
    (pc \in {"value", "done"} /\ cur.op = "get_platform_ids") =>
        /\ (calls[1].status = CL_SUCCESS /\ calls[1].out = 0) =>
              /\ Done
              /\ Len(calls) = 1
              /\ result = Ok("VecPlatformId", 0, <<>>)
        /\ (pc = "value" \/ Len(calls) = 2) =>
              calls[1].status = CL_SUCCESS /\ calls[1].out > 0
        /\ (Done /\ calls[1].status = CL_SUCCESS /\ calls[1].out > 0) =>
              Len(calls) = 2

\* the count call reported no platform: one call, Ok of the empty list
C22_Witness ==
    /\ Done
    /\ cur.op = "get_platform_ids"
    /\ Len(calls) = 1
    /\ calls[1].status = CL_SUCCESS
    /\ calls[1].out = 0
    /\ result = Ok("VecPlatformId", 0, <<>>)

\* C23: for every enqueue_* wrapper, the event of an ok-result is what the
\* native call of that invocation wrote to the event slot, and null when it
\* wrote nothing, the slot being null at the start of every invocation; an
\* invocation whose native call answered a failure status returns Err of
\* that status and no event, also when the native call wrote one.
C23_EventOfThisInvocation ==
    (Done /\ cur.op \in EnqueueNames \cup MapOps) =>
        /\ Len(calls) = 1
        /\ result.ok =>
              /\ calls[1].status = CL_SUCCESS
              /\ result.tag = "Event"
              /\ result.num = calls[1].out
              /\ result.num \in {NULL} \cup Events
        /\ ~result.ok =>
              /\ result.tag = "Err"
              /\ result.num \notin Events
              /\ calls[1].wrote => result = Err(calls[1].status)

\* enqueue_unmap_mem_object failed after the native call had written event
\* 52 to the slot: the caller got the code and no event
C23_Witness ==
    /\ Done
    /\ cur.op = "enqueue_unmap_mem_object"
    /\ calls[1].status = CL_INVALID_VALUE
    /\ calls[1].out = 52
    /\ result = Err(CL_INVALID_VALUE)

====
